---- MODULE Spec2Model ----
(***************************************************************************)
(* Model of ccpi/fista/FISTAReconstructor.py: the constructor of           *)
(* FISTAReconstructor (keyword handling and defaults), the power-method    *)
(* Lipschitz estimator calculateLipschitzConstantWithPowerMethod with its  *)
(* projector handles, and setRegularizer.                                  *)
(*                                                                         *)
(* Numbers.  A float is a record [k, v]: k = "num" with v the value in     *)
(* units of 1/Scale (fixed point), or k = "nan" / "inf".  The volume of    *)
(* the power method is a single voxel (GridColCount = 1, one slice), so    *)
(* that the Euclidean norm and the normalisation x1/s are exact.           *)
(* Arrays.  A sinogram-shaped array is a sequence (first axis) of rows;    *)
(* a row is the sequence of the remaining axes, flattened.                 *)
(***************************************************************************)
EXTENDS Integers, Sequences, FiniteSets, TLC

\* ------------------------------------------------------------------ bounds
\* fixed-point resolution: floats are multiples of 1/Scale, rand() draws k/Scale
Scale == 2
\* number of projection angles of the geometry (length of a sinogram row)
MaxAngles == 3
\* a call of the constructor passes at most this many keywords
MaxKeywords == 3
\* the value passed for the keyword number_of_iterations ranges over 0..MaxIterKw
MaxIterKw == 2

\* ------------------------------------------------------------------ floats
F(n) == [k |-> "num", v |-> n]
NaN == [k |-> "nan", v |-> 0]
Inf == [k |-> "inf", v |-> 0]
FromInt(n) == F(n * Scale)

\* IEEE product of two non-negative floats
Mul(a, b) ==
    IF a.k = "nan" \/ b.k = "nan" THEN NaN
    ELSE IF a.k = "inf" \/ b.k = "inf"
         THEN (IF (a.k = "num" /\ a.v = 0) \/ (b.k = "num" /\ b.v = 0) THEN NaN ELSE Inf)
    ELSE F((a.v * b.v) \div Scale)

\* IEEE sum of two non-negative floats
Add(a, b) ==
    IF a.k = "nan" \/ b.k = "nan" THEN NaN
    ELSE IF a.k = "inf" \/ b.k = "inf" THEN Inf
    ELSE F(a.v + b.v)

\* numpy true division of non-negative floats: 0/0 is nan, x/0 is inf, no exception
Div(a, b) ==
    IF a.k = "nan" \/ b.k = "nan" THEN NaN
    ELSE IF a.k = "inf" THEN (IF b.k = "inf" THEN NaN ELSE Inf)
    ELSE IF b.k = "inf" THEN F(0)
    ELSE IF b.v = 0 THEN (IF a.v = 0 THEN NaN ELSE Inf)
    ELSE F((a.v * Scale) \div b.v)

\* numpy.sqrt on the weights used here (perfect squares)
Sqrt(a) ==
    IF a.k # "num" THEN a
    ELSE F(CHOOSE r \in 0..(a.v * Scale) : r * r = a.v * Scale)

\* ------------------------------------------------------------------ arrays
ConstRow(n, x) == [j \in 1..n |-> x]
\* numpy.ones(shape) / an all-zero array of the given shape <<rows, cols>>
Ones(shape) == [i \in 1..shape[1] |-> ConstRow(shape[2], FromInt(1))]
Zeros(shape) == [i \in 1..shape[1] |-> ConstRow(shape[2], FromInt(0))]
\* numpy.shape of an array
Shape(a) == <<Len(a), Len(a[1])>>

\* numpy broadcasting of two rows: equal lengths, or one of length 1 is stretched
CanBroadcast(a, b) == Len(a) = Len(b) \/ Len(a) = 1 \/ Len(b) = 1
BroadcastMul(a, b) ==
    LET n == IF Len(a) >= Len(b) THEN Len(a) ELSE Len(b)
        At(r, j) == IF Len(r) = 1 THEN r[1] ELSE r[j]
    IN [j \in 1..n |-> Mul(At(a, j), At(b, j))]
SqrtRow(r) == [j \in 1..Len(r) |-> Sqrt(r[j])]

RECURSIVE SumRow(_)
SumRow(r) == IF Len(r) = 0 THEN F(0) ELSE Add(r[1], SumRow(Tail(r)))

\* ------------------------------------------------------- python objects
None == [t |-> "None"]
Unbound == [t |-> "unbound"]
\* a local that holds a row when bound
UnboundRow == <<>>
NdArray(n) == [t |-> "ndarray", size |-> n]
Regularizer(name) == [t |-> "regularizer", name |-> name]
Ref(addr) == [t |-> "ref", addr |-> addr]

\* d[k] = v on a dict
Put(d, k, v) == [x \in (DOMAIN d) \cup {k} |-> IF x = k THEN v ELSE d[x]]
EmptyDict == [x \in {} |-> None]

\* what `if v == None:` can do.  None compares equal.  An ndarray compares
\* elementwise under current numpy, and an array of more than one element then
\* has no truth value (ValueError); numpy before 1.13 answered a plain False.
EqNoneOutcomes(v) ==
    IF v = None THEN {"true"}
    ELSE IF v.t = "ndarray" /\ v.size > 1 THEN {"false", "raise"}
    ELSE {"false"}

\* ------------------------------------------------------------------ inputs
PyInt(n) == [t |-> "int", v |-> n]
Array(a) == [t |-> "array", a |-> a]

\* the keywords __init__ accepts (the tuple kw)
KW == <<"number_of_iterations", "Lipschitz_constant", "ideal_image", "weights",
        "region_of_interest", "initialize", "regularizer", "ring_lambda_R_L1",
        "ring_alpha">>
AcceptedKw == {KW[i] : i \in 1..Len(KW)}

\* the value __init__ gives number_of_iterations when the keyword is absent
DefaultIterations == 40

\* geometries a caller passes: ASTRA dicts, two detector rows and two slices for
\* the parallel kinds, one of each for the cone beam (single-voxel volume)
ProjGeom(type, rows) ==
    [type |-> type, DetectorRowCount |-> rows, DetectorColCount |-> 1,
     NAngles |-> MaxAngles]
VolGeom(slices) ==
    [GridColCount |-> 1, GridRowCount |-> 1, GridSliceCount |-> slices]
GeometryInputs ==
    { [proj |-> ProjGeom("parallel", 2), vol |-> VolGeom(2)],
      [proj |-> ProjGeom("parallel3d", 2), vol |-> VolGeom(2)],
      [proj |-> ProjGeom("cone", 1), vol |-> VolGeom(1)] }

\* the measured sinogram: two first-axis entries, MaxAngles values in each
SinogramInput == Array(Zeros(<<2, MaxAngles>>))

\* rows of weights of length n: all zero, all four, or zero then four
WeightRows(n) ==
    {ConstRow(n, FromInt(0)), ConstRow(n, FromInt(4))}
      \cup (IF n >= 2
            THEN {[j \in 1..n |-> IF j = 1 THEN FromInt(0) ELSE FromInt(4)]}
            ELSE {})
\* weights arrays of two first-axis entries: of the sinogram's shape (the second
\* entry all four or all zero), or with rows one short, or with rows of length 1
WeightsInputs ==
    { Array(<<r, ConstRow(MaxAngles, o)>>) :
          r \in WeightRows(MaxAngles), o \in {FromInt(0), FromInt(4)} }
      \cup { Array(<<r, r>>) : r \in WeightRows(MaxAngles - 1) }
      \cup { Array(<<r, r>>) : r \in WeightRows(1) }

KwValues(key) ==
    CASE key = "number_of_iterations" -> {PyInt(n) : n \in 0..MaxIterKw}
      [] key = "Lipschitz_constant"   -> {FromInt(0), FromInt(3)}
      [] key = "ideal_image"          -> {NdArray(1), NdArray(2)}
      [] key = "weights"              -> WeightsInputs
      [] key = "region_of_interest"   -> {[t |-> "indices", from |-> "caller"]}
      [] key = "initialize"           -> {[t |-> "bool", v |-> TRUE]}
      [] key = "regularizer"          -> {Regularizer("FGP_TV")}
      [] key = "ring_lambda_R_L1"     -> {PyInt(2)}
      [] key = "ring_alpha"           -> {PyInt(3)}

\* keyword dicts over the first n keys of KW with at most MaxKeywords entries
RECURSIVE KwDicts(_)
KwDicts(n) ==
    IF n = 0 THEN {EmptyDict}
    ELSE LET prev == KwDicts(n - 1)
         IN prev \cup { Put(d, KW[n], v) :
                          d \in {e \in prev : Cardinality(DOMAIN e) < MaxKeywords},
                          v \in KwValues(KW[n]) }
KwargsInputs == KwDicts(Len(KW))

\* arguments setRegularizer is called with
RegularizerInputs == {None, Regularizer("FGP_TV"), Regularizer("LLT")}

\* ------------------------------------------------------------------- state
VARIABLES
    pc,        \* position of the thread of control
    exc,       \* the exception that ended a call, or "none"
    given,     \* the geometry dicts as the caller built them
    kwargs,    \* the keywords of the constructor call
    pars,      \* self.pars
    heap,      \* the dict objects, by address
    loc,       \* the estimator's local variables
    live,      \* projector handles that exist on the ASTRA side
    nextId,    \* next handle id ASTRA hands out
    calls,     \* projector and numeric operations the estimator has issued
    deletes,   \* the data3d('delete', id) calls issued, with whether id was live
    pmCalls,   \* how many times the estimator has been entered
    ret,       \* the value the estimator returned
    drv        \* the reconstruction run: [state, iter]

vars == <<pc, exc, given, kwargs, pars, heap, loc, live, nextId, calls, deletes,
          pmCalls, ret, drv>>

NoLocals ==
    [N |-> 0, proj_geom |-> Unbound, vol_geom |-> Unbound, weights |-> Unbound,
     SlicesZ |-> 0, niter |-> 0, x1 |-> Unbound, sqweight |-> UnboundRow,
     proj_geomT |-> Unbound, vol_geomT |-> Unbound, y |-> UnboundRow,
     sino_id |-> 0, idx |-> 0, s |-> Unbound, i |-> 0]

Init ==
    /\ pc = "call"
    /\ exc = "none"
    /\ given \in GeometryInputs
    /\ kwargs \in KwargsInputs
    /\ pars = EmptyDict
    /\ heap = [a \in {"pg", "vg"} |-> IF a = "pg" THEN given.proj ELSE given.vol]
    /\ loc = NoLocals
    /\ live = {}
    /\ nextId = 1
    /\ calls = <<>>
    /\ deletes = <<>>
    /\ pmCalls = 0
    /\ ret = Unbound
    /\ drv = [state |-> "NONE", iter |-> 0]

\* an exception leaves the call: nothing else changes
Raise(e) == pc' = "raised" /\ exc' = e

\* -------------------------------------------------------------- __init__
\* lines 79-86: the obligatory parameters
ObligatoryPars ==
    LET sino == SinogramInput
        p1 == Put(EmptyDict, "projector_geometry", Ref("pg"))
        p2 == Put(p1, "output_geometry", Ref("vg"))
        p3 == Put(p2, "input_sinogram", sino)
        p4 == Put(p3, "detectors", PyInt(Shape(sino.a)[1]))
        p5 == Put(p4, "number_og_angles", PyInt(Shape(sino.a)[2]))
    IN Put(p5, "SlicesZ", PyInt(1))

\* lines 103-107: every accepted keyword is copied into pars
RECURSIVE CopyKeywords(_, _, _)
CopyKeywords(p, kws, n) ==
    IF n = 0 THEN p
    ELSE LET q == CopyKeywords(p, kws, n - 1)
         IN IF KW[n] \in DOMAIN kws /\ KW[n] \in AcceptedKw
            THEN Put(q, KW[n], kws[KW[n]]) ELSE q

\* the keyword is dropped and the default always taken
SetIterations_IgnoreKeyword(p, kws) ==
    Put(p, "number_of_iterations", PyInt(DefaultIterations))

\* lines 110-113
SetIterations(p, kws) ==
    IF "number_of_iterations" \in DOMAIN kws
    THEN Put(p, "number_of_iterations", kws["number_of_iterations"])
    ELSE Put(p, "number_of_iterations", PyInt(DefaultIterations))

\* lines 114-117
SetWeights(p, kws) ==
    IF "weights" \in DOMAIN kws
    THEN Put(p, "weights", kws["weights"])
    ELSE Put(p, "weights", Array(Ones(Shape(p["input_sinogram"].a))))

\* lines 79-117 of __init__
Construct_Params ==
    /\ pc = "call"
    /\ pars' = SetWeights(SetIterations(
                   CopyKeywords(ObligatoryPars, kwargs, Len(KW)), kwargs), kwargs)
    /\ pc' = "ctor_L"
    /\ UNCHANGED <<exc, given, kwargs, heap, loc, live, nextId, calls, deletes,
                   pmCalls, ret, drv>>

\* lines 118-121: the supplied constant is stored, or the estimator is entered
Construct_Lipschitz ==
    /\ pc = "ctor_L"
    /\ IF "Lipschitz_constant" \in DOMAIN kwargs
       THEN /\ pars' = Put(pars, "Lipschitz_constant", kwargs["Lipschitz_constant"])
            /\ pc' = "ctor_tail"
            /\ UNCHANGED pmCalls
       ELSE /\ pc' = "pm_entry"
            /\ pmCalls' = pmCalls + 1
            /\ UNCHANGED pars
    /\ UNCHANGED <<exc, given, kwargs, heap, loc, live, nextId, calls, deletes,
                   ret, drv>>

\* lines 123-130: ideal_image defaults to None; a region of interest is derived
\* from the ideal image when none was passed
TailIdeal(p, kws) ==
    IF "ideal_image" \notin DOMAIN kws THEN Put(p, "ideal_image", None) ELSE p
TailRoi(p, kws, isNone) ==
    IF "region_of_interest" \notin DOMAIN kws /\ isNone = "false"
    THEN Put(p, "region_of_interest", [t |-> "indices", from |-> "ideal_image"])
    ELSE p

\* lines 132-139: the ring defaults are filled in only under a regularizer keyword
TailRegularizer(p, kws) ==
    IF "regularizer" \notin DOMAIN kws
    THEN Put(p, "regularizer", None)
    ELSE LET q == IF "ring_lambda_R_L1" \notin DOMAIN kws
                  THEN Put(p, "ring_lambda_R_L1", PyInt(0)) ELSE p
         IN IF "ring_alpha" \notin DOMAIN kws
            THEN Put(q, "ring_alpha", PyInt(1)) ELSE q

\* lines 123-139 of __init__
Construct_Tail ==
    /\ pc = "ctor_tail"
    /\ LET p1 == TailIdeal(pars, kwargs)
       IN \E isNone \in EqNoneOutcomes(p1["ideal_image"]) :
            IF "region_of_interest" \notin DOMAIN kwargs /\ isNone = "raise"
            THEN /\ pars' = p1
                 /\ Raise("ValueError")
            ELSE /\ pars' = TailRegularizer(TailRoi(p1, kwargs, isNone), kwargs)
                 /\ pc' = "ready"
                 /\ UNCHANGED exc
    /\ UNCHANGED <<given, kwargs, heap, loc, live, nextId, calls, deletes,
                   pmCalls, ret, drv>>

\* installing a regularizer throws the cached constant away and estimates again
setRegularizer_Reestimate(regularizer) ==
    /\ pc = "ready"
    /\ pars' = IF regularizer # None
               THEN Put(pars, "regularizer", regularizer) ELSE pars
    /\ pc' = "pm_entry"
    /\ pmCalls' = pmCalls + 1
    /\ UNCHANGED <<exc, given, kwargs, heap, loc, live, nextId, calls, deletes,
                   ret, drv>>

\* lines 259-261
setRegularizer(regularizer) ==
    /\ pc = "ready"
    /\ IF regularizer # None
       THEN pars' = Put(pars, "regularizer", regularizer)
       ELSE UNCHANGED pars
    /\ UNCHANGED <<pc, exc, given, kwargs, heap, loc, live, nextId, calls,
                   deletes, pmCalls, ret, drv>>

\* ------------------------------------------------- the external projector
\* number of power iterations: parallel / parallel3d, and any other geometry
ParallelIterations == 5
DivergentIterations == 8

\* dict.copy() into a fresh object at address dst, and d[key] = val
DictCopy(h, src, dst) == Put(h, dst, h[src])
SetItem(h, addr, key, val) == [h EXCEPT ![addr] = [@ EXCEPT ![key] = val]]
\* `del name` of a local dict: the object goes when only the local held it
CallerOwned == {"pg", "vg"}
Release(h, addr) ==
    IF addr \in CallerOwned THEN h ELSE [a \in (DOMAIN h) \ {addr} |-> h[a]]

\* flattened length of one sinogram the projector makes for geometry g
SinoLen(g) == g.DetectorRowCount * g.NAngles * g.DetectorColCount
\* unit-gain stand-in for the ASTRA pair: every ray sees the single voxel,
\* the back projection sums the rays
ForwardProject(x, g) == ConstRow(SinoLen(g), x)
BackProject(y) == SumRow(y)
\* numpy.linalg.norm of a one-voxel volume of non-negative value
Norm(x) == IF x.k = "num" THEN F(IF x.v < 0 THEN 0 - x.v ELSE x.v) ELSE x

\* astra.matlab.data3d('delete', id): removes the object if it exists
AstraDelete(id) ==
    /\ live' = live \ {id}
    /\ deletes' = Append(deletes, [id |-> id, wasLive |-> id \in live])

\* numpy.random.rand of the one-voxel volume: a value k/Scale in (0, 1)
RandValues == {F(r) : r \in 1..(Scale - 1)}

\* ----------------------- calculateLipschitzConstantWithPowerMethod: steps
\* create_sino3d_gpu(x1, geometry at g): may fail inside the projector
ForwardStep(here, next, g) ==
    /\ pc = here
    /\ calls' = Append(calls, "fp")
    /\ \E ok \in BOOLEAN :
         IF ok
         THEN /\ loc' = [loc EXCEPT !.sino_id = nextId,
                                    !.y = ForwardProject(loc.x1, heap[g])]
              /\ live' = live \cup {nextId}
              /\ nextId' = nextId + 1
              /\ pc' = next
              /\ UNCHANGED exc
         ELSE /\ Raise("OperatorError")
              /\ UNCHANGED <<loc, live, nextId>>
    /\ UNCHANGED <<given, kwargs, pars, heap, deletes, pmCalls, ret, drv>>

\* y = sqweight * y: numpy raises ValueError when the shapes do not broadcast
WeightStep(here, next) ==
    /\ pc = here
    /\ IF CanBroadcast(loc.sqweight, loc.y)
       THEN /\ loc' = [loc EXCEPT !.y = BroadcastMul(loc.sqweight, loc.y)]
            /\ calls' = Append(calls, "w")
            /\ pc' = next
            /\ UNCHANGED exc
       ELSE /\ Raise("ValueError")
            /\ UNCHANGED <<loc, calls>>
    /\ UNCHANGED <<given, kwargs, pars, heap, live, nextId, deletes, pmCalls,
                   ret, drv>>

\* create_backprojection3d_gpu(sqweight * y, ...): may fail inside the projector
BackStep(here, next, dropY) ==
    /\ pc = here
    /\ calls' = Append(calls, "bp")
    /\ \E ok \in BOOLEAN :
         IF ok
         THEN /\ loc' = [loc EXCEPT
                           !.idx = nextId,
                           !.x1 = BackProject(BroadcastMul(loc.sqweight, loc.y)),
                           !.y = IF dropY THEN UnboundRow ELSE @]
              /\ live' = live \cup {nextId}
              /\ nextId' = nextId + 1
              /\ pc' = next
              /\ UNCHANGED exc
         ELSE /\ Raise("OperatorError")
              /\ UNCHANGED <<loc, live, nextId>>
    /\ UNCHANGED <<given, kwargs, pars, heap, deletes, pmCalls, ret, drv>>

\* s = numpy.linalg.norm(x1)
NormStep(here, next) ==
    /\ pc = here
    /\ loc' = [loc EXCEPT !.s = Norm(loc.x1)]
    /\ calls' = Append(calls, "norm")
    /\ pc' = next
    /\ UNCHANGED <<exc, given, kwargs, pars, heap, live, nextId, deletes,
                   pmCalls, ret, drv>>

\* x1 = x1 / s: no test of s, numpy divides
NormalizeStep(here, next) ==
    /\ pc = here
    /\ loc' = [loc EXCEPT !.x1 = Div(loc.x1, loc.s)]
    /\ calls' = Append(calls, "div")
    /\ pc' = next
    /\ UNCHANGED <<exc, given, kwargs, pars, heap, live, nextId, deletes,
                   pmCalls, ret, drv>>

\* astra.matlab.data3d('delete', id), then optionally `del x1`
DeleteStep(here, next, id, dropX) ==
    /\ pc = here
    /\ AstraDelete(id)
    /\ loc' = [loc EXCEPT !.x1 = IF dropX THEN Unbound ELSE @]
    /\ pc' = next
    /\ UNCHANGED <<exc, given, kwargs, pars, heap, nextId, calls, pmCalls,
                   ret, drv>>

\* the last delete of an iteration, and the loop's test
LoopEndStep(here, again, after, id) ==
    /\ pc = here
    /\ AstraDelete(id)
    /\ loc' = [loc EXCEPT !.i = @ + 1]
    /\ pc' = IF loc.i + 1 < loc.niter THEN again ELSE after
    /\ UNCHANGED <<exc, given, kwargs, pars, heap, nextId, calls, pmCalls,
                   ret, drv>>

\* return s, stored by __init__ (line 121) in pars['Lipschitz_constant']
ReturnStep(here, h) ==
    /\ pc = here
    /\ heap' = h
    /\ ret' = loc.s
    /\ pars' = Put(pars, "Lipschitz_constant", loc.s)
    /\ loc' = NoLocals
    /\ pc' = "ctor_tail"
    /\ UNCHANGED <<exc, given, kwargs, live, nextId, calls, deletes, pmCalls, drv>>

\* the square root is taken of the last first-axis entry instead of entry 0
SqWeight_LastEntry(weights) == SqrtRow(weights.a[Len(weights.a)])

\* lines 163 and 225: sqweight = numpy.sqrt(weights[0])
SqWeight(weights) == SqrtRow(weights.a[1])

IsParallel(g) == g.type = "parallel" \/ g.type = "parallel3d"

\* lines 147-151: the locals read from pars
EntryLocals ==
    [NoLocals EXCEPT !.N = heap[pars["output_geometry"].addr].GridColCount,
                     !.proj_geom = pars["projector_geometry"],
                     !.vol_geom = pars["output_geometry"],
                     !.weights = pars["weights"],
                     !.SlicesZ = pars["SlicesZ"].v]

\* -------------------------------------------- parallel branch, lines 155-217
\* the geometries are not copied: proj_geomT and vol_geomT alias the caller's dicts
PM_ParallelSetup_NoCopy ==
    /\ pc = "pm_entry"
    /\ IsParallel(heap[pars["projector_geometry"].addr])
    /\ \E x \in RandValues :
         loc' = [EntryLocals EXCEPT
                   !.niter = ParallelIterations,
                   !.x1 = x,
                   !.sqweight = SqWeight(pars["weights"]),
                   !.proj_geomT = pars["projector_geometry"],
                   !.vol_geomT = pars["output_geometry"]]
    /\ heap' = SetItem(SetItem(heap,
                     pars["projector_geometry"].addr, "DetectorRowCount", 1),
                     pars["output_geometry"].addr, "GridSliceCount", 1)
    /\ pc' = "p_fwd"
    /\ UNCHANGED <<exc, given, kwargs, pars, live, nextId, calls, deletes,
                   pmCalls, ret, drv>>

\* lines 158-167: the geometry is copied and the copies reduced to one row/slice
PM_ParallelSetup ==
    /\ pc = "pm_entry"
    /\ IsParallel(heap[pars["projector_geometry"].addr])
    /\ \E x \in RandValues :
         loc' = [EntryLocals EXCEPT
                   !.niter = ParallelIterations,
                   !.x1 = x,
                   !.sqweight = SqWeight(pars["weights"]),
                   !.proj_geomT = Ref("pgT"),
                   !.vol_geomT = Ref("vgT")]
    /\ heap' = SetItem(SetItem(DictCopy(DictCopy(heap,
                     pars["projector_geometry"].addr, "pgT"),
                     pars["output_geometry"].addr, "vgT"),
                     "pgT", "DetectorRowCount", 1),
                     "vgT", "GridSliceCount", 1)
    /\ pc' = "p_fwd"
    /\ UNCHANGED <<exc, given, kwargs, pars, live, nextId, calls, deletes,
                   pmCalls, ret, drv>>

\* lines 182-184
P_Forward == ForwardStep("p_fwd", "p_weight", loc.proj_geomT.addr)
\* line 186
P_Weight == WeightStep("p_weight", "p_del_sino")
\* lines 193-194
P_DeleteSino == DeleteStep("p_del_sino", "p_back", loc.sino_id, TRUE)
\* lines 196-199
P_Back == BackStep("p_back", "p_norm", TRUE)
\* line 202
P_Norm == NormStep("p_norm", "p_div")
\* line 204
P_Normalize == NormalizeStep("p_div", "p_del_sino2")
\* line 211: sino_id is deleted a second time
P_DeleteSinoAgain == DeleteStep("p_del_sino2", "p_del_idx", loc.sino_id, FALSE)
\* lines 212-213 and the loop test of line 172
P_DeleteIdx == LoopEndStep("p_del_idx", "p_fwd", "p_end", loc.idx)
\* lines 216-217, 256 and the store of line 121
P_Return ==
    ReturnStep("p_end", Release(Release(heap, loc.proj_geomT.addr),
                                loc.vol_geomT.addr))

\* ------------------------------------------- divergent branch, lines 219-253
\* lines 222-225
PM_DivergentSetup ==
    /\ pc = "pm_entry"
    /\ ~IsParallel(heap[pars["projector_geometry"].addr])
    /\ \E x \in RandValues :
         loc' = [EntryLocals EXCEPT
                   !.niter = DivergentIterations,
                   !.x1 = x,
                   !.sqweight = SqWeight(pars["weights"])]
    /\ pc' = "d_fwd0"
    /\ UNCHANGED <<exc, given, kwargs, pars, heap, live, nextId, calls, deletes,
                   pmCalls, ret, drv>>

\* line 227
D_Forward0 == ForwardStep("d_fwd0", "d_weight0", loc.proj_geom.addr)
\* line 228
D_Weight0 == WeightStep("d_weight0", "d_del_sino0")
\* line 230
D_DeleteSino0 == DeleteStep("d_del_sino0", "d_back", loc.sino_id, FALSE)
\* lines 234-236
D_Back == BackStep("d_back", "d_norm", FALSE)
\* line 237
D_Norm == NormStep("d_norm", "d_div")
\* line 239
D_Normalize == NormalizeStep("d_div", "d_fwd")
\* lines 242-244
D_Forward == ForwardStep("d_fwd", "d_weight", loc.proj_geom.addr)
\* line 246
D_Weight == WeightStep("d_weight", "d_del_sino")
\* line 249
D_DeleteSino == DeleteStep("d_del_sino", "d_del_idx", loc.sino_id, FALSE)
\* line 250 and the loop test of line 232
D_DeleteIdx == LoopEndStep("d_del_idx", "d_back", "d_end", loc.idx)
\* lines 253, 256 and the store of line 121
D_Return == ReturnStep("d_end", heap)

Estimator ==
    \/ PM_ParallelSetup \/ P_Forward \/ P_Weight \/ P_DeleteSino \/ P_Back
    \/ P_Norm \/ P_Normalize \/ P_DeleteSinoAgain \/ P_DeleteIdx \/ P_Return
    \/ PM_DivergentSetup \/ D_Forward0 \/ D_Weight0 \/ D_DeleteSino0 \/ D_Back
    \/ D_Norm \/ D_Normalize \/ D_Forward \/ D_Weight \/ D_DeleteSino
    \/ D_DeleteIdx \/ D_Return

\* ------------------------------------------------ the reconstruction run
\* The run loop is not part of FISTAReconstructor.py; it is modelled from the
\* state machine of the specification (section 4.2):
\*   INIT -> ITERATING -> (CONVERGED | MAX_ITERS_REACHED) -> DONE
\* with the iteration budget read from pars['number_of_iterations'].
RunBudget == pars["number_of_iterations"].v

\* run(parameters) is entered on a constructed object
Run_Start ==
    /\ pc = "ready"
    /\ drv.state = "NONE"
    /\ drv' = [state |-> "INIT", iter |-> 0]
    /\ pc' = "running"
    /\ UNCHANGED <<exc, given, kwargs, pars, heap, loc, live, nextId, calls,
                   deletes, pmCalls, ret>>

\* INIT validates the parameters and sets up the initial volume
Run_Init ==
    /\ pc = "running"
    /\ drv.state = "INIT"
    /\ drv' = [drv EXCEPT !.state = IF RunBudget <= 0 THEN "MAX_ITERS_REACHED"
                                    ELSE "ITERATING"]
    /\ UNCHANGED <<pc, exc, given, kwargs, pars, heap, loc, live, nextId, calls,
                   deletes, pmCalls, ret>>

\* one outer step, then the termination test: the change fell below the
\* tolerance, or the count reached the maximum
Run_Iterate ==
    /\ pc = "running"
    /\ drv.state = "ITERATING"
    /\ \E converged \in BOOLEAN :
         drv' = [state |-> IF converged THEN "CONVERGED"
                           ELSE IF drv.iter + 1 >= RunBudget
                                THEN "MAX_ITERS_REACHED" ELSE "ITERATING",
                 iter |-> drv.iter + 1]
    /\ UNCHANGED <<pc, exc, given, kwargs, pars, heap, loc, live, nextId, calls,
                   deletes, pmCalls, ret>>

\* the volume and the diagnostics are handed back
Run_Finish ==
    /\ pc = "running"
    /\ drv.state \in {"CONVERGED", "MAX_ITERS_REACHED"}
    /\ drv' = [drv EXCEPT !.state = "DONE"]
    /\ pc' = "ready"
    /\ UNCHANGED <<exc, given, kwargs, pars, heap, loc, live, nextId, calls,
                   deletes, pmCalls, ret>>

Run == Run_Init \/ Run_Iterate \/ Run_Finish

Next ==
    \/ Construct_Params
    \/ Construct_Lipschitz
    \/ Estimator
    \/ Construct_Tail
    \/ \E r \in RegularizerInputs : setRegularizer(r)

Spec == Init /\ [][Next]_vars

\* a constructed reconstructor that is also run; the keywords are those the
\* run reads or the estimator needs
InitRun ==
    /\ Init
    /\ DOMAIN kwargs \subseteq {"number_of_iterations", "Lipschitz_constant",
                                "regularizer"}

NextRun ==
    \/ Construct_Params
    \/ Construct_Lipschitz
    \/ Estimator
    \/ Construct_Tail
    \/ \E r \in RegularizerInputs : setRegularizer(r)
    \/ Run_Start
    \/ Run

\* one thread drives the loop: a started run keeps taking steps
RunSpec == InitRun /\ [][NextRun]_vars /\ WF_vars(Run)

\* ------------------------------------------------------------------ claims
HasKw(key) == key \in DOMAIN kwargs
Constructed == pc \in {"ready", "running"}

\* C1: a reconstructor built without the keyword 'Lipschitz_constant' has run
\* the estimator exactly once and holds its return value; one built with the
\* keyword holds the supplied value and no projector call was ever made; this
\* stays so after any number of setRegularizer calls.
LipschitzEstimatedOnceAndCached ==
    /\ pmCalls <= 1
    /\ Constructed =>
         IF HasKw("Lipschitz_constant")
         THEN /\ pmCalls = 0
              /\ calls = <<>>
              /\ pars["Lipschitz_constant"] = kwargs["Lipschitz_constant"]
         ELSE /\ pmCalls = 1
              /\ ret # Unbound
              /\ pars["Lipschitz_constant"] = ret

\* C1 witness: built without the keyword, estimated, and a regularizer that only
\* setRegularizer can install is in place
LipschitzCachedAfterSetRegularizer ==
    /\ pc = "ready"
    /\ ~HasKw("Lipschitz_constant")
    /\ pmCalls = 1
    /\ pars["regularizer"] = Regularizer("LLT")
    /\ pars["Lipschitz_constant"] = ret

\* C2: in every state after construction the Lipschitz constant of the parameter
\* set is a finite number greater than zero.
LipschitzPositiveFinite ==
    Constructed =>
        /\ pars["Lipschitz_constant"].k = "num"
        /\ pars["Lipschitz_constant"].v > 0

WeightsShapeMismatch ==
    /\ HasKw("weights")
    /\ Shape(kwargs["weights"].a) # Shape(SinogramInput.a)
\* C3: when the weights do not have the sinogram's shape the constructor raises
\* ConfigurationError and no projector call has been made.
ShapeMismatchRaisesBeforeProjector ==
    WeightsShapeMismatch =>
        /\ calls = <<>>
        /\ ~Constructed
        /\ pc = "raised" => exc = "ConfigurationError"

\* C4: the estimator never divides by a zero norm (it fails with
\* NumericalDegeneracyError instead) and never returns NaN or zero.
ZeroNormNeverDivided ==
    /\ ~(/\ calls # <<>>
         /\ calls[Len(calls)] = "div"
         /\ loc.s = F(0))
    /\ ret # Unbound => (ret.k = "num" /\ ret.v > 0)

EstimatorLeft ==
    \/ pc \in {"ctor_tail", "ready", "running"}
    \/ pc = "raised" /\ exc = "OperatorError"
IterationCompleted ==
    \/ pc \in {"p_end", "d_end"}
    \/ pc \in {"p_fwd", "d_back"} /\ loc.i > 0
\* C5: on every exit of the estimator, by return or by an exception of a
\* projector call, no handle is live; and none is live at the end of a completed
\* power iteration.
NoHandleLeftOnExit ==
    (EstimatorLeft \/ IterationCompleted) => live = {}

\* C6: after construction and any setRegularizer calls, a ring keyword that was
\* not supplied has its default in the parameter set: ring_lambda_R_L1 = 0,
\* ring_alpha = 1.
RingDefaultsInPars ==
    Constructed =>
        /\ ~HasKw("ring_lambda_R_L1") =>
              /\ "ring_lambda_R_L1" \in DOMAIN pars
              /\ pars["ring_lambda_R_L1"] = PyInt(0)
        /\ ~HasKw("ring_alpha") =>
              /\ "ring_alpha" \in DOMAIN pars
              /\ pars["ring_alpha"] = PyInt(1)

\* C7: a parameter set that holds a region of interest also holds an ideal
\* image that is not None.
RoiRequiresIdealImage ==
    (Constructed /\ "region_of_interest" \in DOMAIN pars) =>
        /\ "ideal_image" \in DOMAIN pars
        /\ pars["ideal_image"] # None

ConfiguredMaximum ==
    IF HasKw("number_of_iterations")
    THEN kwargs["number_of_iterations"].v ELSE DefaultIterations
RECURSIVE Rounds(_)
Rounds(n) ==
    IF n = 0 THEN <<>> ELSE Rounds(n - 1) \o <<"fp", "w", "bp", "norm", "div">>
Count(op) == Cardinality({j \in 1..Len(calls) : calls[j] = op})
\* C9: the estimator issues exactly niter rounds of (forward-project, weight,
\* back-project, norm, normalize), niter = 5 for 'parallel' and 'parallel3d' and
\* 8 otherwise; nothing follows the last normalisation.
PowerMethodCallSequence ==
    ret # Unbound =>
        /\ calls = Rounds(IF IsParallel(given.proj) THEN 5 ELSE 8)
        /\ Count("fp") = Count("bp")

\* C10: the estimator leaves the caller's geometry as it was: the dicts that
\* pars['projector_geometry'] and pars['output_geometry'] name keep every entry,
\* during and after the call; for a divergent geometry no dict is written or made.
GeometryUnchanged ==
    /\ heap["pg"] = given.proj
    /\ heap["vg"] = given.vol
    /\ pars # EmptyDict =>
          /\ pars["projector_geometry"] = Ref("pg")
          /\ pars["output_geometry"] = Ref("vg")
    /\ ~IsParallel(given.proj) => DOMAIN heap = {"pg", "vg"}
    /\ ret # Unbound => DOMAIN heap = {"pg", "vg"}

\* C10 witness: a parallel geometry of two detector rows and two slices, after
\* the estimator has returned
ParallelEstimateReturned ==
    /\ pc = "ready"
    /\ ret # Unbound
    /\ IsParallel(given.proj)
    /\ heap["pg"].DetectorRowCount = 2
    /\ heap["vg"].GridSliceCount = 2

\* C11: every delete the estimator issues names a handle that is live at that
\* moment, and no handle id is deleted twice.
EveryHandleReleasedOnce ==
    \A j \in 1..Len(deletes) :
        /\ deletes[j].wasLive
        /\ \A k \in 1..Len(deletes) : deletes[k].id = deletes[j].id => k = j

\* n power rounds from volume x with square-root weights sq on geometry g: the
\* norm measured in the last round
RECURSIVE PowerRounds(_, _, _, _)
PowerRounds(x, sq, g, n) ==
    LET back == BackProject(BroadcastMul(sq, BroadcastMul(sq, ForwardProject(x, g))))
        s == Norm(back)
    IN IF n <= 1 THEN s ELSE PowerRounds(Div(back, s), sq, g, n - 1)
\* the estimate as a function of entry 0 of the weights, the projector geometry
\* and the initial volume
EstimateFromFirstEntry(row, g, x0) ==
    IF IsParallel(g)
    THEN PowerRounds(x0, SqrtRow(row), [g EXCEPT !.DetectorRowCount = 1], ParallelIterations)
    ELSE PowerRounds(x0, SqrtRow(row), g, DivergentIterations)

====
